---- MODULE Spec2Model ----
(***************************************************************************)
(* A model of the Ring Intercom unlock server (src/app.py): the token      *)
(* store (RING_TOKEN, TOKEN_FILE, _latest_token_b64), the session manager  *)
(* (get_ring_client), the device resolver (find_intercom), the unlock      *)
(* orchestrator (unlock_door_async) behind the API-key guard, and the two  *)
(* login handlers.  Text is modelled as sequences of byte values, so that  *)
(* str.lower, the substring test, json and base64 are computed.            *)
(***************************************************************************)
EXTENDS Integers, Sequences, FiniteSets, TLC

(***************************************************************************)
(* Text: a str is the sequence of its (ASCII) byte values.                 *)
(***************************************************************************)

\* str.lower() on ASCII text
Lower(s) == [i \in 1..Len(s) |-> IF s[i] \in 65..90 THEN s[i] + 32 ELSE s[i]]

\* the Python test  sub in s
Contains(sub, s) ==
    \E i \in 0..(Len(s) - Len(sub)) : SubSeq(s, i + 1, i + Len(sub)) = sub

\* "intercom"
S_intercom == <<105,110,116,101,114,99,111,109>>
\* "other"
S_other == <<111,116,104,101,114>>
\* "authenticate"
S_authenticate == <<97,117,116,104,101,110,116,105,99,97,116,101>>

(***************************************************************************)
(* Python values that can be a token: None, a str, a dict of str keys.     *)
(* A dict is the sequence of its (key, value) items in insertion order.    *)
(***************************************************************************)
PyNone == [py |-> "None"]
PyStr(s) == [py |-> "str", v |-> s]
PyDict(items) == [py |-> "dict", items |-> items]

\* the truth value Python gives a value in  if x:
Truthy(x) ==
    CASE x.py = "None" -> FALSE
      [] x.py = "str"  -> Len(x.v) > 0
      [] x.py = "dict" -> Len(x.items) > 0

(***************************************************************************)
(* json.dumps with the default separators (", " and ": ").  Of the         *)
(* characters json escapes, the strings of the model hold the quote and    *)
(* the backslash only.                                                     *)
(***************************************************************************)
\* the body of a JSON string:  "  becomes  \"  and  \  becomes  \\
RECURSIVE Escape(_)
Escape(s) ==
    IF Len(s) = 0 THEN <<>>
    ELSE (IF s[1] \in {34, 92} THEN <<92, s[1]>> ELSE <<s[1]>>) \o Escape(Tail(s))

RECURSIVE DumpsItems(_)
RECURSIVE json_dumps(_)
DumpsItems(items) ==
    IF Len(items) = 0 THEN <<>>
    ELSE <<34>> \o Escape(items[1][1]) \o <<34, 58, 32>> \o json_dumps(items[1][2])
         \o (IF Len(items) = 1 THEN <<>> ELSE <<44, 32>> \o DumpsItems(Tail(items)))
json_dumps(x) ==
    CASE x.py = "None" -> <<110,117,108,108>>
      [] x.py = "str"  -> <<34>> \o Escape(x.v) \o <<34>>
      [] x.py = "dict" -> <<123>> \o DumpsItems(x.items) \o <<125>>

(***************************************************************************)
(* json.loads, a recursive-descent parser of the JSON the model's texts    *)
(* can hold: null, strings with the escapes \" \\ \/, objects; JSON         *)
(* whitespace is skipped between tokens.  A parse step yields [ok, val,    *)
(* pos], pos the index of the next unread byte.                            *)
(***************************************************************************)
JsonWs == {32, 9, 10, 13}
ParseFail == [ok |-> FALSE, val |-> PyNone, pos |-> 0]

RECURSIVE SkipWs(_, _)
SkipWs(t, p) == IF p <= Len(t) /\ t[p] \in JsonWs THEN SkipWs(t, p + 1) ELSE p

\* the index of the closing quote of a string whose body starts at p, 0 if none
RECURSIVE StringEnd(_, _)
StringEnd(t, p) ==
    IF p > Len(t) THEN 0
    ELSE IF t[p] = 34 THEN p
    ELSE IF t[p] < 32 THEN 0
    ELSE IF t[p] = 92
         THEN IF p + 1 <= Len(t) /\ t[p + 1] \in {34, 92, 47}
              THEN StringEnd(t, p + 2) ELSE 0
    ELSE StringEnd(t, p + 1)

\* the str a string body stands for
RECURSIVE Unescape(_)
Unescape(s) ==
    IF Len(s) = 0 THEN <<>>
    ELSE IF s[1] = 92 THEN <<s[2]>> \o Unescape(SubSeq(s, 3, Len(s)))
    ELSE <<s[1]>> \o Unescape(Tail(s))

\* dict[key] = val: a repeated key keeps its place and takes the new value
DictSet(items, key, val) ==
    IF \E i \in 1..Len(items) : items[i][1] = key
    THEN [i \in 1..Len(items) |->
            IF items[i][1] = key THEN <<key, val>> ELSE items[i]]
    ELSE Append(items, <<key, val>>)

RECURSIVE ParseValue(_, _)
RECURSIVE ParseMembers(_, _, _)
\* the members of an object after "{" or after ",": p is at a key's quote
ParseMembers(t, p, items) ==
    IF p > Len(t) \/ t[p] # 34 THEN ParseFail
    ELSE LET e == StringEnd(t, p + 1) IN
         IF e = 0 THEN ParseFail
         ELSE LET key == Unescape(SubSeq(t, p + 1, e - 1))
                  c == SkipWs(t, e + 1)
              IN IF c > Len(t) \/ t[c] # 58 THEN ParseFail
                 ELSE LET v == ParseValue(t, SkipWs(t, c + 1)) IN
                      IF ~v.ok THEN ParseFail
                      ELSE LET q == SkipWs(t, v.pos)
                               its == DictSet(items, key, v.val)
                           IN IF q > Len(t) THEN ParseFail
                              ELSE IF t[q] = 125
                                   THEN [ok |-> TRUE, val |-> PyDict(its), pos |-> q + 1]
                              ELSE IF t[q] = 44
                                   THEN ParseMembers(t, SkipWs(t, q + 1), its)
                              ELSE ParseFail
ParseValue(t, p) ==
    IF p > Len(t) THEN ParseFail
    ELSE IF t[p] = 34
         THEN LET e == StringEnd(t, p + 1) IN
              IF e = 0 THEN ParseFail
              ELSE [ok |-> TRUE, val |-> PyStr(Unescape(SubSeq(t, p + 1, e - 1))), pos |-> e + 1]
    ELSE IF t[p] = 123
         THEN LET q == SkipWs(t, p + 1) IN
              IF q <= Len(t) /\ t[q] = 125
              THEN [ok |-> TRUE, val |-> PyDict(<<>>), pos |-> q + 1]
              ELSE ParseMembers(t, q, <<>>)
    ELSE IF p + 3 <= Len(t) /\ SubSeq(t, p, p + 3) = <<110,117,108,108>>
         THEN [ok |-> TRUE, val |-> PyNone, pos |-> p + 4]
    ELSE ParseFail

\* json.loads(t): [ok |-> FALSE] stands for the JSONDecodeError it raises
json_loads(t) ==
    LET v == ParseValue(t, SkipWs(t, 1)) IN
    IF v.ok /\ SkipWs(t, v.pos) > Len(t) THEN [ok |-> TRUE, val |-> v.val]
    ELSE [ok |-> FALSE, val |-> PyNone]

(***************************************************************************)
(* base64.b64encode and base64.b64decode (the non-strict decoder of        *)
(* binascii.a2b_base64: characters outside the alphabet are skipped, the   *)
(* padding must complete the last quantum).                                *)
(***************************************************************************)
B64Char(i) ==
    IF i < 26 THEN 65 + i
    ELSE IF i < 52 THEN 97 + (i - 26)
    ELSE IF i < 62 THEN 48 + (i - 52)
    ELSE IF i = 62 THEN 43 ELSE 47

\* the 6-bit value of an alphabet character, 64 for any other byte
B64Val(c) ==
    IF c \in 65..90 THEN c - 65
    ELSE IF c \in 97..122 THEN c - 97 + 26
    ELSE IF c \in 48..57 THEN c - 48 + 52
    ELSE IF c = 43 THEN 62
    ELSE IF c = 47 THEN 63 ELSE 64

RECURSIVE b64encode(_)
b64encode(b) ==
    IF Len(b) = 0 THEN <<>>
    ELSE IF Len(b) = 1
         THEN <<B64Char(b[1] \div 4), B64Char((b[1] % 4) * 16), 61, 61>>
    ELSE IF Len(b) = 2
         THEN <<B64Char(b[1] \div 4), B64Char((b[1] % 4) * 16 + b[2] \div 16),
                B64Char((b[2] % 16) * 4), 61>>
    ELSE <<B64Char(b[1] \div 4), B64Char((b[1] % 4) * 16 + b[2] \div 16),
           B64Char((b[2] % 16) * 4 + b[3] \div 64), B64Char(b[3] % 64)>>
         \o b64encode(SubSeq(b, 4, Len(b)))

\* the decoder's loop: quad is the position in the quantum, left the bits
\* carried over, pads the run of "=" seen, out the bytes decoded so far
RECURSIVE B64Loop(_, _, _, _, _, _)
B64Loop(a, p, quad, left, pads, out) ==
    IF p > Len(a)
    THEN IF quad = 0 THEN [ok |-> TRUE, val |-> out] ELSE [ok |-> FALSE, val |-> <<>>]
    ELSE IF a[p] = 61
         THEN IF quad >= 2 /\ quad + pads + 1 >= 4
              THEN [ok |-> TRUE, val |-> out]
              ELSE B64Loop(a, p + 1, quad, left,
                           IF quad >= 2 THEN pads + 1 ELSE pads, out)
    ELSE LET c == B64Val(a[p]) IN
         IF c = 64 THEN B64Loop(a, p + 1, quad, left, pads, out)
         ELSE CASE quad = 0 -> B64Loop(a, p + 1, 1, c, 0, out)
                [] quad = 1 -> B64Loop(a, p + 1, 2, c % 16, 0,
                                       Append(out, left * 4 + c \div 16))
                [] quad = 2 -> B64Loop(a, p + 1, 3, c % 4, 0,
                                       Append(out, left * 16 + c \div 4))
                [] quad = 3 -> B64Loop(a, p + 1, 0, 0, 0,
                                       Append(out, left * 64 + c))

\* base64.b64decode(a): [ok |-> FALSE] stands for the binascii.Error it raises
b64decode(a) == B64Loop(a, 1, 0, 0, 0, <<>>)

\* bytes.decode(): the texts of the model are ASCII; a byte >= 128 that the
\* decoder produces does not start a valid UTF-8 sequence there
Utf8Decode(b) ==
    IF \A i \in 1..Len(b) : b[i] < 128 THEN [ok |-> TRUE, val |-> b]
    ELSE [ok |-> FALSE, val |-> <<>>]

(***************************************************************************)
(* Bounds and the values the environment supplies.                         *)
(***************************************************************************)
\* concurrent request threads of the server
NumThreads == 2
\* devices in one account
MaxDevices == 2

Threads == 1..NumThreads
\* the thread of a server that runs one synchronous worker
MainThread == CHOOSE t \in Threads : \A u \in Threads : t <= u

\* tokens the provider issues: {"a": "x"} and {"a": "y", "r": "z"}
TokA == PyDict(<< <<(<<97>>), PyStr(<<120>>)>> >>)
TokB == PyDict(<< <<(<<97>>), PyStr(<<121>>)>>, <<(<<114>>), PyStr(<<122>>)>> >>)
IssuedTokens == {TokA, TokB}

\* API keys: "k" is the configured one when one is configured, "z" a wrong one
KeyK == <<107>>
KeyZ == <<122>>
ApiKeyConfigs == {<<>>, KeyK}
\* what request.headers.get / request.args.get return
KeyInputs == {PyNone, PyStr(<<>>), PyStr(KeyK), PyStr(KeyZ)}

\* RING_TOKEN: unset, the encoding of a token, the encoding of a token cut
\* short by a copying slip (base64 of text that is no JSON), text that is no
\* base64 ("x"), and base64 of bytes that are no UTF-8 ("////")
EnvA == b64encode(json_dumps(TokA))
RingTokenConfigs == {<<>>, EnvA, SubSeq(EnvA, 1, 12), <<120>>, <<47,47,47,47>>}

\* INTERCOM_NAME: unset, or "HALL"
IntercomNameConfigs == {<<>>, <<72,65,76,76>>}

\* TOKEN_FILE: its content when it is a file
NoFile == [exists |-> FALSE, data |-> <<>>]
FileOf(data) == [exists |-> TRUE, data |-> data]
\* at start: no file, a token written by an earlier run, or a damaged file
InitialFiles == {NoFile, FileOf(json_dumps(TokB)), FileOf(<<123>>)}

\* texts of the errors the provider raises: "timeout", "denied"
ErrTimeout == <<116,105,109,101,111,117,116>>
ErrDenied == <<100,101,110,105,101,100>>
ErrorTexts == {ErrTimeout, ErrDenied}

(***************************************************************************)
(* Devices.  A device has a name, a family and the text of its type,       *)
(* str(type(device)).  A RingDevices object exposes groupings as           *)
(* attributes; [has |-> FALSE] is an attribute it does not have.           *)
(***************************************************************************)
TypeOther == <<60,99,108,97,115,115,32,39,114,105,110,103,95,100,111,111,114,98,101,108,108,46,111,116,104,101,114,46,82,105,110,103,79,116,104,101,114,39,62>>
TypeChime == <<60,99,108,97,115,115,32,39,114,105,110,103,95,100,111,111,114,98,101,108,108,46,99,104,105,109,101,46,82,105,110,103,67,104,105,109,101,39,62>>
TypeDoorBell == <<60,99,108,97,115,115,32,39,114,105,110,103,95,100,111,111,114,98,101,108,108,46,100,111,111,114,98,111,116,46,82,105,110,103,68,111,111,114,66,101,108,108,39,62>>
FamOther == S_other
FamChimes == <<99,104,105,109,101,115>>
FamDoorbots == <<100,111,111,114,98,111,116,115>>

\* "Gate" (other), "Hall" (chimes), "Intercom" (doorbots), "hall" (other)
DevGate == [name |-> <<71,97,116,101>>, family |-> FamOther, type |-> TypeOther]
DevHall == [name |-> <<72,97,108,108>>, family |-> FamChimes, type |-> TypeChime]
DevIntercom == [name |-> <<73,110,116,101,114,99,111,109>>, family |-> FamDoorbots, type |-> TypeDoorBell]
DevHallOther == [name |-> <<104,97,108,108>>, family |-> FamOther, type |-> TypeOther]
Devices == {DevGate, DevHall, DevIntercom, DevHallOther}
NoDevice == [name |-> <<>>, family |-> <<>>, type |-> <<>>, none |-> TRUE]

DeviceLists == UNION {[1..n -> Devices] : n \in 0..MaxDevices}

NoAttr == [has |-> FALSE, list |-> <<>>]
Attr(l) == [has |-> TRUE, list |-> l]
OfFamily(l, fam) == SelectSeq(l, LAMBDA d : d.family = fam)

\* what ring.devices() returns for an account holding the devices l: the
\* groupings by family, video_doorbells naming the doorbots again, and, when
\* combined, the listing devices_combined of them all
RingDevices(l, combined) ==
    [other            |-> Attr(OfFamily(l, FamOther)),
     doorbots         |-> Attr(OfFamily(l, FamDoorbots)),
     stickup_cams     |-> Attr(<<>>),
     chimes           |-> Attr(OfFamily(l, FamChimes)),
     video_doorbells  |-> Attr(OfFamily(l, FamDoorbots)),
     devices_combined |-> IF combined THEN Attr(l) ELSE NoAttr]
\* a frame that holds no RingDevices object yet
NoSnapshot ==
    [other |-> NoAttr, doorbots |-> NoAttr, stickup_cams |-> NoAttr, chimes |-> NoAttr,
     video_doorbells |-> NoAttr, devices_combined |-> NoAttr]
Snapshots == {RingDevices(l, c) : l \in DeviceLists, c \in BOOLEAN}

(***************************************************************************)
(* Token store: get_cached_token.                                          *)
(***************************************************************************)
\* lines 87-88: base64.b64decode(RING_TOKEN.encode()).decode(), json.loads
DecodeEnv(ring_token) ==
    LET b == b64decode(ring_token) IN
    IF ~b.ok THEN [ok |-> FALSE, val |-> PyNone]
    ELSE LET u == Utf8Decode(b.val) IN
         IF ~u.ok THEN [ok |-> FALSE, val |-> PyNone] ELSE json_loads(u.val)

\* lines 93-97: the token read from TOKEN_FILE, None when that fails
ReadFile(file) ==
    IF file.exists /\ json_loads(file.data).ok THEN json_loads(file.data).val
    ELSE PyNone

\* get_cached_token reading the file before the environment variable
get_cached_token_FileFirst(ring_token, file, latest) ==
    IF ReadFile(file) # PyNone THEN [exc |-> FALSE, val |-> ReadFile(file)]
    ELSE IF Len(ring_token) > 0 /\ DecodeEnv(ring_token).ok
    THEN [exc |-> FALSE, val |-> DecodeEnv(ring_token).val]
    ELSE [exc |-> FALSE, val |-> PyNone]

\* get_cached_token falling back on _latest_token_b64 when the file gives
\* nothing
get_cached_token_UsesLatest(ring_token, file, latest) ==
    IF Len(ring_token) > 0 /\ DecodeEnv(ring_token).ok
    THEN [exc |-> FALSE, val |-> DecodeEnv(ring_token).val]
    ELSE IF ReadFile(file) # PyNone THEN [exc |-> FALSE, val |-> ReadFile(file)]
    ELSE IF latest # PyNone THEN [exc |-> FALSE, val |-> DecodeEnv(latest.v).val]
    ELSE [exc |-> FALSE, val |-> PyNone]

\* get_cached_token(): exc tells whether it raised, val is what it returned.
\* Both try blocks catch Exception, so nothing it calls makes it raise.
get_cached_token(ring_token, file, latest) ==
    IF Len(ring_token) > 0 /\ DecodeEnv(ring_token).ok
    THEN [exc |-> FALSE, val |-> DecodeEnv(ring_token).val]
    ELSE [exc |-> FALSE, val |-> ReadFile(file)]

(***************************************************************************)
(* Device resolver: find_intercom.                                         *)
(***************************************************************************)
Ext(a) == IF a.has THEN a.list ELSE <<>>

\* lines 129-147 with extend in place of the assignment of line 147: the
\* combined listing is added to the groupings
all_devices_Extend(devices) ==
    Ext(devices.other) \o Ext(devices.doorbots) \o Ext(devices.stickup_cams)
    \o Ext(devices.chimes) \o Ext(devices.video_doorbells)
    \o Ext(devices.devices_combined)

\* lines 129-147: the candidates
all_devices(devices) ==
    IF devices.devices_combined.has THEN devices.devices_combined.list
    ELSE Ext(devices.other) \o Ext(devices.doorbots) \o Ext(devices.stickup_cams)
         \o Ext(devices.chimes) \o Ext(devices.video_doorbells)

\* line 168: 'intercom' in device_type or in device_family or in device_name
IsIntercom(d) ==
    \/ Contains(S_intercom, Lower(d.type))
    \/ Contains(S_intercom, Lower(d.family))
    \/ Contains(S_intercom, Lower(d.name))

\* find_intercom without lines 171-172 and 177-178: no fallback on 'other'
find_intercom_NoOther(devices, intercom_name) ==
    LET all == all_devices(devices)
        named == SelectSeq(all, LAMBDA d : Lower(d.name) = Lower(intercom_name))
        intercom_devices == SelectSeq(all, IsIntercom)
    IN IF Len(intercom_name) > 0 /\ Len(named) > 0 THEN named[1]
       ELSE IF Len(intercom_devices) > 0 THEN intercom_devices[1]
       ELSE NoDevice

\* find_intercom with lines 149-153 after the heuristics: the configured
\* name is looked at only when no intercom and no 'other' device is found
find_intercom_NameLast(devices, intercom_name) ==
    LET all == all_devices(devices)
        named == SelectSeq(all, LAMBDA d : Lower(d.name) = Lower(intercom_name))
        intercom_devices == SelectSeq(all, IsIntercom)
        other_devices ==
            SelectSeq(all, LAMBDA d : ~IsIntercom(d) /\ Lower(d.family) = S_other)
    IN IF Len(intercom_devices) > 0 THEN intercom_devices[1]
       ELSE IF Len(other_devices) > 0 THEN other_devices[1]
       ELSE IF Len(intercom_name) > 0 /\ Len(named) > 0 THEN named[1]
       ELSE NoDevice

\* find_intercom with one list in place of intercom_devices and
\* other_devices: the first device that is either is returned
find_intercom_OneList(devices, intercom_name) ==
    LET all == all_devices(devices)
        named == SelectSeq(all, LAMBDA d : Lower(d.name) = Lower(intercom_name))
        either == SelectSeq(all, LAMBDA d : IsIntercom(d) \/ Lower(d.family) = S_other)
    IN IF Len(intercom_name) > 0 /\ Len(named) > 0 THEN named[1]
       ELSE IF Len(either) > 0 THEN either[1]
       ELSE NoDevice

\* find_intercom returning None after the loop of lines 150-153 when a name
\* is configured: the heuristics run only without a name
find_intercom_NameOnly(devices, intercom_name) ==
    LET all == all_devices(devices)
        named == SelectSeq(all, LAMBDA d : Lower(d.name) = Lower(intercom_name))
        intercom_devices == SelectSeq(all, IsIntercom)
        other_devices ==
            SelectSeq(all, LAMBDA d : ~IsIntercom(d) /\ Lower(d.family) = S_other)
    IN IF Len(intercom_name) > 0
       THEN (IF Len(named) > 0 THEN named[1] ELSE NoDevice)
       ELSE IF Len(intercom_devices) > 0 THEN intercom_devices[1]
       ELSE IF Len(other_devices) > 0 THEN other_devices[1]
       ELSE NoDevice

\* lines 123-180
find_intercom(devices, intercom_name) ==
    LET all == all_devices(devices)
        named == SelectSeq(all, LAMBDA d : Lower(d.name) = Lower(intercom_name))
        intercom_devices == SelectSeq(all, IsIntercom)
        other_devices ==
            SelectSeq(all, LAMBDA d : ~IsIntercom(d) /\ Lower(d.family) = S_other)
    IN IF Len(intercom_name) > 0 /\ Len(named) > 0 THEN named[1]
       ELSE IF Len(intercom_devices) > 0 THEN intercom_devices[1]
       ELSE IF Len(other_devices) > 0 THEN other_devices[1]
       ELSE NoDevice

(***************************************************************************)
(* The messages of unlock_door_async.                                      *)
(***************************************************************************)
\* "Not authenticated. Please visit /setup to authenticate."
MsgNotAuthenticated == <<78,111,116,32,97,117,116,104,101,110,116,105,99,97,116,101,100,46,32,80,108,101,97,115,101,32,118,105,115,105,116,32,47,115,101,116,117,112,32,116,111,32,97,117,116,104,101,110,116,105,99,97,116,101,46>>
\* f"Door unlocked via {intercom.name}!"
MsgUnlocked(d) == <<68,111,111,114,32,117,110,108,111,99,107,101,100,32,118,105,97,32>> \o d.name \o <<33>>
\* line 215 with a fixed text in place of str(e): "Error unlocking door"
MsgError_NoText(e) == <<69,114,114,111,114,32,117,110,108,111,99,107,105,110,103,32,100,111,111,114>>

\* f"Error unlocking door: {str(e)}"
MsgError(e) == <<69,114,114,111,114,32,117,110,108,111,99,107,105,110,103,32,100,111,111,114,58,32>> \o e

\* lines 199-201: the devices listed when no intercom is found
ListedDevices(devices) ==
    IF Len(Ext(devices.devices_combined)) = 0 /\ devices.other.has
    THEN devices.other.list
    ELSE Ext(devices.devices_combined)

\* lines 203-206: f"{name} ({family})" for each of them
RECURSIVE device_list(_)
device_list(l) ==
    IF Len(l) = 0 THEN <<>>
    ELSE <<l[1].name \o <<32,40>> \o l[1].family \o <<41>>>> \o device_list(Tail(l))

\* the text Python gives a list of str in an f-string: ['a', 'b']
RECURSIVE ReprItems(_)
ReprItems(l) ==
    IF Len(l) = 0 THEN <<>>
    ELSE <<39>> \o l[1] \o <<39>>
         \o (IF Len(l) = 1 THEN <<>> ELSE <<44,32>> \o ReprItems(Tail(l)))
ReprList(l) == <<91>> \o ReprItems(l) \o <<93>>

\* f"No intercom found. Available devices: {device_list}"
MsgNoIntercom(devices) ==
    <<78,111,32,105,110,116,101,114,99,111,109,32,102,111,117,110,100,46,32,65,118,97,105,108,97,98,108,101,32,100,101,118,105,99,101,115,58,32>>
    \o ReprList(device_list(ListedDevices(devices)))

(***************************************************************************)
(* State.  The configuration is read once at start and never assigned.     *)
(* call[t] is the frame of the request thread t is serving: where it is    *)
(* (pc), what it holds (key, creds, code, tok, devices, intercom, result,  *)
(* resp, ptok, pret) and what it has done so far: loaded (it called        *)
(* get_cached_token), acq (what get_ring_client gave), sess (the provider  *)
(* session of its Auth), closes (calls of async_close), acts (calls of     *)
(* async_open_door), opened (one of them opened the door), err (the error  *)
(* one raised), fetches (calls of async_fetch_token), persists (calls of   *)
(* token_updated), wfail (the file write of the last of them failed).      *)
(* attempt is not state of the server, which keeps none between the two    *)
(* legs of a login: it is the history of the caller's login attempt, the   *)
(* stage the last page of the setup flow left it in and the leg that       *)
(* rendered that page.                                                     *)
(***************************************************************************)
VARIABLES API_KEY, RING_TOKEN, INTERCOM_NAME, token_file, latest_token_b64, call,
          attempt

vars == <<API_KEY, RING_TOKEN, INTERCOM_NAME, token_file, latest_token_b64, call,
          attempt>>
config == <<API_KEY, RING_TOKEN, INTERCOM_NAME>>
store == <<token_file, latest_token_b64>>

NoResult == [kind |-> "none", success |-> FALSE, message |-> <<>>]
Returned(success, message) == [kind |-> "value", success |-> success, message |-> message]
Raised(e) == [kind |-> "raised", success |-> FALSE, message |-> e]

NoResp == [status |-> 0, kind |-> "none", success |-> FALSE, text |-> <<>>]
\* jsonify({'error': text}), status
JsonError(status, text) == [status |-> status, kind |-> "json_error", success |-> FALSE, text |-> text]
\* what Flask answers when the view raises
Unhandled(e) == [status |-> 500, kind |-> "unhandled", success |-> FALSE, text |-> e]
\* a page of the setup flow
Page(kind) == [status |-> 200, kind |-> kind, success |-> kind = "complete", text |-> <<>>]

IdleFrame ==
    [pc |-> "idle", route |-> "none", key |-> PyNone, creds |-> "none", code |-> "none",
     loaded |-> FALSE, acq |-> "none", tok |-> PyNone, sess |-> "none",
     closes |-> 0, acts |-> 0, opened |-> FALSE, err |-> <<>>, fetches |-> 0,
     devices |-> NoSnapshot, intercom |-> NoDevice,
     result |-> NoResult, resp |-> NoResp, ptok |-> PyNone, pret |-> "none",
     persists |-> 0, wfail |-> FALSE]

\* the caller is at the credentials form
NewAttempt == [stage |-> "AwaitingCredentials", leg |-> "none"]

Init ==
    /\ attempt = NewAttempt
    /\ API_KEY \in ApiKeyConfigs
    /\ RING_TOKEN \in RingTokenConfigs
    /\ INTERCOM_NAME \in IntercomNameConfigs
    /\ token_file \in InitialFiles
    /\ latest_token_b64 = PyNone
    /\ call = [t \in Threads |-> IdleFrame]

Set(t, frame) == call' = [call EXCEPT ![t] = frame]

(***************************************************************************)
(* require_api_key and the /unlock view.                                   *)
(***************************************************************************)
\* line 47: request.headers.get('X-API-Key') or request.args.get('api_key')
ProvidedKey(header, query) == IF Truthy(header) THEN header ELSE query

\* require_api_key without line 48-49: an unconfigured server lets a request
\* without a key through
require_api_key_NoConfigCheck(api_key, provided_key) ==
    IF provided_key # PyStr(api_key) /\ provided_key # PyNone THEN 401 ELSE 0

\* lines 48-52: the status the decorator answers with, 0 when it calls the view
require_api_key(api_key, provided_key) ==
    IF Len(api_key) = 0 THEN 500
    ELSE IF provided_key # PyStr(api_key) THEN 401
    ELSE 0

\* "Server not configured - API_KEY not set", "Invalid or missing API key"
GuardText(status) ==
    IF status = 500
    THEN <<83,101,114,118,101,114,32,110,111,116,32,99,111,110,102,105,103,117,114,101,100,32,45,32,65,80,73,95,75,69,89,32,110,111,116,32,115,101,116>>
    ELSE <<73,110,118,97,108,105,100,32,111,114,32,109,105,115,115,105,110,103,32,65,80,73,32,107,101,121>>

\* lines 453-464: the response of /unlock for what unlock_door_async gave
UnlockResponse(result) ==
    IF result.kind = "raised" THEN Unhandled(result.message)
    ELSE IF result.success
         THEN [status |-> 200, kind |-> "json", success |-> TRUE, text |-> result.message]
    ELSE [status |-> 400, kind |-> "json", success |-> FALSE, text |-> result.message]

\* the view returns: the frame at the end of the request
Finish(frame, result) ==
    [frame EXCEPT !.pc = "done", !.result = result, !.resp = UnlockResponse(result)]

\* lines 185-188 with the session released although none was acquired
NotAuthenticated_Releases(frame) ==
    Finish([frame EXCEPT !.acq = "absent", !.sess = "closed", !.closes = @ + 1],
           Returned(FALSE, MsgNotAuthenticated))

\* lines 185-188: get_ring_client gave (None, None)
NotAuthenticated(frame) ==
    Finish([frame EXCEPT !.acq = "absent"], Returned(FALSE, MsgNotAuthenticated))

\* lines 107-110, 120: get_ring_client up to the first await
StartClient(frame, cached) ==
    IF cached.exc THEN Finish([frame EXCEPT !.acq = "raised"], Raised(<<>>))
    ELSE IF ~Truthy(cached.val) THEN NotAuthenticated([frame EXCEPT !.tok = cached.val])
    ELSE [frame EXCEPT !.tok = cached.val, !.pc = "create_session"]

\* a request for /unlock arrives: the decorator, then the view up to the
\* first await of get_ring_client
UnlockRequest(t) ==
    /\ call[t].pc = "idle"
    /\ \E header \in KeyInputs, query \in KeyInputs :
         LET provided == ProvidedKey(header, query)
             status == require_api_key(API_KEY, provided)
             frame == [IdleFrame EXCEPT !.route = "unlock", !.key = provided]
         IN IF status # 0
            THEN Set(t, [frame EXCEPT !.pc = "done",
                                      !.resp = JsonError(status, GuardText(status))])
            ELSE Set(t, StartClient([frame EXCEPT !.loaded = TRUE],
                          get_cached_token(RING_TOKEN, token_file, latest_token_b64)))
    /\ UNCHANGED <<config, store>>

(***************************************************************************)
(* token_updated, the callback the provider library calls with a token it  *)
(* issued.  write_text opens the file for writing, which empties it, then  *)
(* writes from the start; another writer's bytes beyond what is written    *)
(* stay in place.                                                          *)
(***************************************************************************)
Overlay(old, data) ==
    IF Len(data) >= Len(old) THEN data ELSE data \o SubSeq(old, Len(data) + 1, Len(old))

\* how much of the text a write_text that fails may have written: nothing,
\* half of it; all of it when it does not fail
WrittenLengths(text) == {0, Len(text) \div 2, Len(text)}

\* lines 68-70 with the padding of the base64 text stripped
EncodeLatest_NoPadding(token) ==
    PyStr(SelectSeq(b64encode(json_dumps(token)), LAMBDA c : c # 61))

\* lines 68-70
EncodeLatest(token) == PyStr(b64encode(json_dumps(token)))

\* the callback is entered: it returns to pc ret
EnterTokenUpdated(frame, token, ret) ==
    [frame EXCEPT !.pc = "tu_open", !.ptok = token, !.pret = ret,
                  !.persists = @ + 1, !.wfail = FALSE]

\* the callback returns
LeaveTokenUpdated(frame) ==
    [frame EXCEPT !.pc = frame.pret, !.ptok = PyNone, !.pret = "none"]

\* line 62, open: the file is emptied; or the open fails (lines 64-65) and
\* lines 68-70 follow at once
TokenUpdatedOpen(t) ==
    /\ call[t].pc = "tu_open"
    /\ \/ /\ token_file' = FileOf(<<>>)
          /\ latest_token_b64' = latest_token_b64
          /\ Set(t, [call[t] EXCEPT !.pc = "tu_write"])
       \/ /\ token_file' = token_file
          /\ latest_token_b64' = EncodeLatest(call[t].ptok)
          /\ Set(t, LeaveTokenUpdated([call[t] EXCEPT !.wfail = TRUE]))
    /\ UNCHANGED config

\* lines 62-70 without the try block: a write that fails ends the callback
\* with the error, before line 69
TokenUpdatedWrite_Raises(t) ==
    /\ call[t].pc = "tu_write"
    /\ LET text == json_dumps(call[t].ptok) IN
       \E n \in WrittenLengths(text) :
          /\ token_file' = FileOf(Overlay(token_file.data, SubSeq(text, 1, n)))
          /\ IF n < Len(text)
             THEN /\ latest_token_b64' = latest_token_b64
                  /\ Set(t, [call[t] EXCEPT !.pc = "done", !.wfail = TRUE,
                                            !.resp = Unhandled(ErrDenied)])
             ELSE /\ latest_token_b64' = EncodeLatest(call[t].ptok)
                  /\ Set(t, LeaveTokenUpdated(call[t]))
    /\ UNCHANGED config

\* line 62, write and close: all of the text, or a part of it when the write
\* fails (lines 64-65); then lines 68-70
TokenUpdatedWrite(t) ==
    /\ call[t].pc = "tu_write"
    /\ LET text == json_dumps(call[t].ptok) IN
       \E n \in WrittenLengths(text) :
          /\ token_file' = FileOf(Overlay(token_file.data, SubSeq(text, 1, n)))
          /\ Set(t, LeaveTokenUpdated([call[t] EXCEPT !.wfail = n < Len(text)]))
    /\ latest_token_b64' = EncodeLatest(call[t].ptok)
    /\ UNCHANGED config

(***************************************************************************)
(* get_ring_client and unlock_door_async after the first await.  What the  *)
(* provider answers is the environment's choice.                           *)
(***************************************************************************)
\* lines 113-118 with the rejected token thrown away: the except branch
\* removes the token file
CreateSession_DropsToken(t) ==
    /\ call[t].pc = "create_session"
    /\ call[t].route = "unlock"
    /\ LET frame == [call[t] EXCEPT !.sess = "open"] IN
       \/ Set(t, [frame EXCEPT !.pc = "update_data"]) /\ UNCHANGED store
       \/ /\ \E token \in IssuedTokens \ {call[t].tok} :
               Set(t, EnterTokenUpdated([frame EXCEPT !.tok = token], token, "update_data"))
          /\ UNCHANGED store
       \/ /\ Set(t, NotAuthenticated(frame))
          /\ token_file' = NoFile
          /\ latest_token_b64' = latest_token_b64
       \/ /\ \E e \in ErrorTexts :
               Set(t, Finish([frame EXCEPT !.acq = "raised"], Raised(e)))
          /\ UNCHANGED store
    /\ UNCHANGED config

\* line 113, ring.async_create_session(): it succeeds, it succeeds after the
\* provider refreshed the token (the library then calls token_updated), the
\* provider rejects the token and issues none (AuthenticationError), or the
\* call raises another error, which get_ring_client does not catch
CreateSession(t) ==
    /\ call[t].pc = "create_session"
    /\ call[t].route = "unlock"
    /\ LET frame == [call[t] EXCEPT !.sess = "open"] IN
       \/ Set(t, [frame EXCEPT !.pc = "update_data"])
       \/ \E token \in IssuedTokens \ {call[t].tok} :
             Set(t, EnterTokenUpdated([frame EXCEPT !.tok = token], token, "update_data"))
       \/ Set(t, NotAuthenticated(frame))
       \/ \E e \in ErrorTexts :
             Set(t, Finish([frame EXCEPT !.acq = "raised"], Raised(e)))
    /\ UNCHANGED <<config, store>>

\* lines 191-208: find_intercom on the snapshot, and the result when there
\* is no intercom
Resolve(frame, devices) ==
    LET intercom == find_intercom(devices, INTERCOM_NAME)
        held == [frame EXCEPT !.acq = "ok", !.devices = devices, !.intercom = intercom]
    IN IF intercom = NoDevice
       THEN [held EXCEPT !.pc = "close", !.result = Returned(FALSE, MsgNoIntercom(devices))]
       ELSE [held EXCEPT !.pc = "open_door"]

\* line 114, ring.async_update_data(), and on success lines 115, 185-208
UpdateData(t, snapshots) ==
    /\ call[t].pc = "update_data"
    /\ call[t].route = "unlock"
    /\ \/ \E devices \in snapshots : Set(t, Resolve(call[t], devices))
       \/ Set(t, NotAuthenticated(call[t]))
       \/ \E e \in ErrorTexts :
             Set(t, Finish([call[t] EXCEPT !.acq = "raised"], Raised(e)))
    /\ UNCHANGED <<config, store>>

\* lines 211-215 without the finally block: an error of async_open_door ends
\* the call with the session left open
OpenDoor_NoFinally(t) ==
    /\ call[t].pc = "open_door"
    /\ LET frame == [call[t] EXCEPT !.acts = @ + 1, !.pc = "close"] IN
       \/ Set(t, [frame EXCEPT !.opened = TRUE,
                               !.result = Returned(TRUE, MsgUnlocked(frame.intercom))])
       \/ \E e \in ErrorTexts :
             Set(t, Finish([frame EXCEPT !.err = e], Returned(FALSE, MsgError(e))))
    /\ UNCHANGED <<config, store>>

\* lines 211-215 with a retry: after an error async_open_door is called again
OpenDoor_Retry(t) ==
    /\ call[t].pc = "open_door"
    /\ LET frame == [call[t] EXCEPT !.acts = @ + 1] IN
       \/ Set(t, [frame EXCEPT !.pc = "close", !.opened = TRUE,
                               !.result = Returned(TRUE, MsgUnlocked(frame.intercom))])
       \/ \E e \in ErrorTexts :
             Set(t, [frame EXCEPT !.pc = IF frame.acts < 2 THEN "open_door" ELSE "close",
                                  !.err = e, !.result = Returned(FALSE, MsgError(e))])
    /\ UNCHANGED <<config, store>>

\* lines 211-215 with the return of line 212 after the try statement: an
\* error of async_open_door is caught and the success result is returned
OpenDoor_SwallowsError(t) ==
    /\ call[t].pc = "open_door"
    /\ LET frame == [call[t] EXCEPT !.acts = @ + 1, !.pc = "close",
                                    !.result = Returned(TRUE, MsgUnlocked(call[t].intercom))]
       IN \/ Set(t, [frame EXCEPT !.opened = TRUE])
          \/ \E e \in ErrorTexts : Set(t, [frame EXCEPT !.err = e])
    /\ UNCHANGED <<config, store>>

\* lines 211-215: intercom.async_open_door() opens the door or raises
OpenDoor(t) ==
    /\ call[t].pc = "open_door"
    /\ LET frame == [call[t] EXCEPT !.acts = @ + 1, !.pc = "close"] IN
       \/ Set(t, [frame EXCEPT !.opened = TRUE,
                               !.result = Returned(TRUE, MsgUnlocked(frame.intercom))])
       \/ \E e \in ErrorTexts :
             Set(t, [frame EXCEPT !.err = e, !.result = Returned(FALSE, MsgError(e))])
    /\ UNCHANGED <<config, store>>

\* lines 216-218 with auth kept in a module variable that get_ring_client
\* assigns: the finally block closes the session of whichever call still
\* has one open
Close_SharedAuth(t) ==
    /\ call[t].pc = "close"
    /\ \E u \in Threads :
         /\ call[u].sess = "open"
         /\ LET closed == [call EXCEPT ![u] = [@ EXCEPT !.sess = "closed", !.closes = @ + 1]]
            IN call' = [closed EXCEPT ![t] = Finish(closed[t], call[t].result)]
    /\ UNCHANGED <<config, store>>

\* lines 216-218, auth.async_close(), then lines 453-464
Close(t) ==
    /\ call[t].pc = "close"
    /\ Set(t, Finish([call[t] EXCEPT !.sess = "closed", !.closes = @ + 1],
                     call[t].result))
    /\ UNCHANGED <<config, store>>

\* the thread takes its next request
Recycle(t) ==
    /\ call[t].pc = "done"
    /\ Set(t, IdleFrame)
    /\ UNCHANGED <<config, store>>

(***************************************************************************)
(* The setup flow: /setup/authenticate and /setup/verify-2fa.  The caller  *)
(* submits credentials the provider rejects ("bad"), accepts outright      *)
(* ("ok") or accepts with a second factor ("ok_2fa"), and with them no     *)
(* code, the right code or a wrong one.                                    *)
(***************************************************************************)
CredKinds == {"bad", "ok", "ok_2fa"}
CodeKinds == {"good", "bad"}

\* what auth.async_fetch_token(username, password[, code]) can do: issue a
\* token (the library then calls token_updated with it), raise
\* Requires2FAError, or raise another error (bad credentials, bad code,
\* network)
FetchOutcomes(creds, code) ==
    {"error"} \cup
    (IF creds = "ok" THEN {"token"}
     ELSE IF creds = "ok_2fa" /\ code = "none" THEN {"2fa_required"}
     ELSE IF creds = "ok_2fa" /\ code = "good" THEN {"token"}
     ELSE {})

\* lines 583-593 without the except Requires2FAError branch: the request for
\* a second factor is not told apart from success
AuthenticateRequest_No2FABranch(t) ==
    /\ call[t].pc = "idle"
    /\ \E creds \in CredKinds :
         LET frame == [IdleFrame EXCEPT !.route = "authenticate", !.creds = creds,
                                        !.sess = "open", !.fetches = 1]
         IN \E outcome \in FetchOutcomes(creds, "none") :
              CASE outcome = "token" ->
                     \E token \in IssuedTokens :
                        Set(t, EnterTokenUpdated([frame EXCEPT !.tok = token],
                                                 token, "fetched"))
                [] outcome = "2fa_required" ->
                     Set(t, [frame EXCEPT !.pc = "done", !.resp = Page("complete")])
                [] outcome = "error" ->
                     Set(t, [frame EXCEPT !.pc = "done", !.resp = Page("failed")])
    /\ UNCHANGED <<config, store>>

\* lines 583-593 up to the end of async_fetch_token
AuthenticateRequest(t) ==
    /\ call[t].pc = "idle"
    /\ \E creds \in CredKinds :
         LET frame == [IdleFrame EXCEPT !.route = "authenticate", !.creds = creds,
                                        !.sess = "open", !.fetches = 1]
         IN \E outcome \in FetchOutcomes(creds, "none") :
              CASE outcome = "token" ->
                     \E token \in IssuedTokens :
                        Set(t, EnterTokenUpdated([frame EXCEPT !.tok = token],
                                                 token, "fetched"))
                [] outcome = "2fa_required" ->
                     Set(t, [frame EXCEPT !.pc = "done", !.resp = Page("2fa_required")])
                [] outcome = "error" ->
                     Set(t, [frame EXCEPT !.pc = "done", !.resp = Page("failed")])
    /\ UNCHANGED <<config, store>>

\* lines 586-587, 595: the token was fetched, the success page is rendered
AuthenticateFetched(t) ==
    /\ call[t].pc = "fetched"
    /\ call[t].route = "authenticate"
    /\ Set(t, [call[t] EXCEPT !.pc = "done", !.resp = Page("complete")])
    /\ UNCHANGED <<config, store>>

\* lines 771-774 up to the end of async_fetch_token
VerifyRequest(t) ==
    /\ call[t].pc = "idle"
    /\ \E creds \in CredKinds, code \in CodeKinds :
         LET frame == [IdleFrame EXCEPT !.route = "verify_2fa", !.creds = creds,
                                        !.code = code, !.sess = "open", !.fetches = 1]
         IN \E outcome \in FetchOutcomes(creds, code) :
              CASE outcome = "token" ->
                     \E token \in IssuedTokens :
                        Set(t, EnterTokenUpdated([frame EXCEPT !.tok = token],
                                                 token, "fetched"))
                [] outcome = "error" ->
                     Set(t, [frame EXCEPT !.pc = "done", !.resp = Page("failed")])
    /\ UNCHANGED <<config, store>>

\* lines 775-782: the session round trip that verifies the token; it
\* succeeds and the session is closed, or a call raises and it is not
VerifySession(t) ==
    /\ call[t].pc = "fetched"
    /\ call[t].route = "verify_2fa"
    /\ \/ Set(t, [call[t] EXCEPT !.pc = "done", !.sess = "closed", !.closes = @ + 1,
                                 !.resp = Page("complete")])
       \/ Set(t, [call[t] EXCEPT !.pc = "done", !.resp = Page("failed")])
    /\ UNCHANGED <<config, store>>

\* what thread t can do
Step(t, snapshots) ==
    \/ UnlockRequest(t)
    \/ TokenUpdatedOpen(t)
    \/ TokenUpdatedWrite(t)
    \/ CreateSession(t)
    \/ UpdateData(t, snapshots)
    \/ OpenDoor(t)
    \/ Close(t)
    \/ AuthenticateRequest(t)
    \/ AuthenticateFetched(t)
    \/ VerifyRequest(t)
    \/ VerifySession(t)
    \/ Recycle(t)

\* the server behind one synchronous worker: one request at a time
Next == Step(MainThread, Snapshots) /\ UNCHANGED attempt

Spec == Init /\ [][Next]_vars

(***************************************************************************)
(* The setup flow on its own, with the history of the caller's attempt.    *)
(***************************************************************************)
LoginStep(t) ==
    \/ AuthenticateRequest(t)
    \/ AuthenticateFetched(t)
    \/ VerifyRequest(t)
    \/ VerifySession(t)
    \/ TokenUpdatedOpen(t)
    \/ TokenUpdatedWrite(t)
    \/ Recycle(t)

\* the stage a page puts the caller in: the success pages (lines 595-597,
\* 786-868), the second-factor form (lines 599-709), the failure pages
\* (lines 711-759, 870-908)
StageOf(resp) ==
    CASE resp.kind = "complete" -> "Complete"
      [] resp.kind = "2fa_required" -> "AwaitingSecondFactor"
      [] OTHER -> "Failed"

\* the attempt after a step of thread t: a page that was rendered moves it
AttemptAfter(before, after) ==
    IF before.pc # "done" /\ after.pc = "done"
    THEN [stage |-> StageOf(after.resp), leg |-> after.route]
    ELSE attempt

NextLogin ==
    /\ LoginStep(MainThread)
    /\ attempt' = AttemptAfter(call[MainThread], call'[MainThread])

SpecLogin == Init /\ [][NextLogin]_vars

(***************************************************************************)
(* The Token Store on its own: get_cached_token and token_updated called   *)
(* directly, as the request handlers and the provider library call them.   *)
(***************************************************************************)
\* get_cached_token() is called; the caller holds what it returned
StoreLoad(t) ==
    /\ call[t].pc = "idle"
    /\ LET cached == get_cached_token(RING_TOKEN, token_file, latest_token_b64)
           frame == [IdleFrame EXCEPT !.route = "load", !.loaded = TRUE,
                                      !.tok = cached.val]
       IN Set(t, [frame EXCEPT !.pc = IF Truthy(cached.val) THEN "held" ELSE "done"])
    /\ UNCHANGED <<config, store>>

\* token_updated(token) is called with the token the caller holds
StorePersistHeld(t) ==
    /\ call[t].pc = "held"
    /\ Set(t, EnterTokenUpdated(call[t], call[t].tok, "reload"))
    /\ UNCHANGED <<config, store>>

\* get_cached_token() is called again
StoreReload(t) ==
    /\ call[t].pc = "reload"
    /\ LET cached == get_cached_token(RING_TOKEN, token_file, latest_token_b64)
       IN Set(t, [call[t] EXCEPT !.pc = "done", !.tok = cached.val])
    /\ UNCHANGED <<config, store>>

\* token_updated(token) is called with a token the provider issued
StorePersist(t) ==
    /\ call[t].pc = "idle"
    /\ \E token \in IssuedTokens :
         Set(t, EnterTokenUpdated([IdleFrame EXCEPT !.route = "persist", !.tok = token],
                                  token, "done"))
    /\ UNCHANGED <<config, store>>

StoreStep(t) ==
    \/ StoreLoad(t)
    \/ StorePersistHeld(t)
    \/ StoreReload(t)
    \/ StorePersist(t)
    \/ TokenUpdatedOpen(t)
    \/ TokenUpdatedWrite(t)
    \/ Recycle(t)

\* one caller at a time
NextStoreSeq == StoreStep(MainThread) /\ UNCHANGED attempt

SpecStoreSeq == Init /\ [][NextStoreSeq]_vars

\* a token has been stored in the file and none is configured
InitStore ==
    /\ attempt = NewAttempt
    /\ API_KEY = KeyK
    /\ RING_TOKEN = <<>>
    /\ INTERCOM_NAME = <<>>
    /\ token_file = FileOf(json_dumps(TokB))
    /\ latest_token_b64 = PyNone
    /\ call = [t \in Threads |-> IdleFrame]

\* the callers run on the threads of the server, in any interleaving
NextStore == (\E t \in Threads : StoreStep(t)) /\ UNCHANGED attempt

SpecStore == InitStore /\ [][NextStore]_vars

(***************************************************************************)
(* The encoding of the token on its own: token_updated is called with any  *)
(* token of a bounded set, and the text it leaves in _latest_token_b64 is  *)
(* given to get_cached_token as RING_TOKEN, as an operator does who copies *)
(* the printed value into the environment.  Tokens are None, strings of up *)
(* to MaxLen characters among  a " \  and dicts of such strings, nested    *)
(* once.                                                                   *)
(***************************************************************************)
MaxLen == 2

CodecAlphabet == {97, 34, 92}
CodecStrings == UNION {[1..n -> CodecAlphabet] : n \in 0..MaxLen}
CodecLeaves == {PyNone} \cup {PyStr(s) : s \in CodecStrings}
CodecTokens ==
    CodecLeaves \cup {PyDict(<<>>)}
    \cup {PyDict(<< <<k, v>> >>) :
             k \in CodecStrings, v \in CodecLeaves \cup {PyDict(<<>>), TokA}}
    \cup {PyDict(<< <<k, PyStr(k)>>, <<k \o <<114>>, PyNone>> >>) : k \in CodecStrings}

\* token_updated(token) is called
CodecPersist(t) ==
    /\ call[t].pc = "idle"
    /\ \E token \in CodecTokens :
         Set(t, EnterTokenUpdated([IdleFrame EXCEPT !.route = "persist", !.tok = token],
                                  token, "done"))
    /\ UNCHANGED <<config, store>>

\* get_cached_token() with RING_TOKEN set to the text of _latest_token_b64
CodecLoad(t) ==
    /\ call[t].pc = "done"
    /\ call[t].route = "persist"
    /\ LET cached == get_cached_token(latest_token_b64.v, token_file, latest_token_b64)
       IN Set(t, [call[t] EXCEPT !.route = "load", !.loaded = TRUE, !.tok = cached.val])
    /\ UNCHANGED <<config, store>>

CodecStep(t) ==
    \/ CodecPersist(t)
    \/ TokenUpdatedOpen(t)
    \/ TokenUpdatedWrite(t)
    \/ CodecLoad(t)

\* a process that persists one token: no token is configured and no file
\* was written yet
InitCodec ==
    /\ attempt = NewAttempt
    /\ API_KEY = KeyK
    /\ RING_TOKEN = <<>>
    /\ INTERCOM_NAME = <<>>
    /\ token_file = NoFile
    /\ latest_token_b64 = PyNone
    /\ call = [t \in Threads |-> IdleFrame]

NextCodec == CodecStep(MainThread) /\ UNCHANGED attempt

SpecCodec == InitCodec /\ [][NextCodec]_vars

(***************************************************************************)
(* /unlock requests served concurrently, one per thread of the server, on  *)
(* an account with one device of family 'other' or with none.              *)
(***************************************************************************)
ConcSnapshots == {RingDevices(<<DevGate>>, TRUE), RingDevices(<<>>, TRUE)}

UnlockStep(t) ==
    \/ UnlockRequest(t)
    \/ TokenUpdatedOpen(t)
    \/ TokenUpdatedWrite(t)
    \/ CreateSession(t)
    \/ UpdateData(t, ConcSnapshots)
    \/ OpenDoor(t)
    \/ Close(t)
    \/ Recycle(t)

NextConc == (\E t \in Threads : UnlockStep(t)) /\ UNCHANGED attempt

\* the token is configured in RING_TOKEN and no file was written yet
InitConc ==
    /\ attempt = NewAttempt
    /\ API_KEY = KeyK
    /\ RING_TOKEN = EnvA
    /\ INTERCOM_NAME = <<>>
    /\ token_file = NoFile
    /\ latest_token_b64 = PyNone
    /\ call = [t \in Threads |-> IdleFrame]

SpecConc == InitConc /\ [][NextConc]_vars

(***************************************************************************)
(* Properties.                                                             *)
(***************************************************************************)
\* an /unlock request that has ended
UnlockDone(t) == call[t].route = "unlock" /\ call[t].pc = "done"
\* the request has done part of the unlock operation
Touched(t) ==
    \/ call[t].loaded
    \/ call[t].acq # "none"
    \/ call[t].sess # "none"
    \/ call[t].acts > 0
    \/ call[t].closes > 0

\* C1: the unlock operation runs for an /unlock request only if an API key
\* is configured and the supplied key equals it; with no key configured the
\* response is 500, with a missing or different key it is 401, and in both
\* cases no token is loaded, no session opened and nothing actuated.
C1_KeyGuard ==
    \A t \in Threads :
       call[t].route = "unlock" =>
          /\ Touched(t) => (Len(API_KEY) > 0 /\ call[t].key = PyStr(API_KEY))
          /\ (call[t].pc = "done" /\ Len(API_KEY) = 0) =>
                (call[t].resp.status = 500 /\ ~Touched(t))
          /\ (call[t].pc = "done" /\ Len(API_KEY) > 0 /\ call[t].key # PyStr(API_KEY)) =>
                (call[t].resp.status = 401 /\ ~Touched(t))
C1_Witness ==
    \E t \in Threads :
       /\ UnlockDone(t)
       /\ call[t].key = PyStr(KeyZ)
       /\ API_KEY = KeyK
       /\ call[t].resp.status = 401

\* C2: every unlock call in which acquire() succeeded has called release
\* exactly once when it returns, whether no device was found, the actuation
\* succeeded or the actuation raised; and never more than once before that.
C2_ReleaseOnce ==
    \A t \in Threads :
       call[t].route = "unlock" =>
          /\ call[t].closes <= 1
          /\ (call[t].pc = "done" /\ call[t].acq = "ok") =>
                (call[t].closes = 1 /\ call[t].sess = "closed")
C2_Witness ==
    \E t \in Threads :
       /\ UnlockDone(t)
       /\ call[t].acq = "ok"
       /\ call[t].acts = 1
       /\ ~call[t].opened
       /\ call[t].closes = 1

\* C3: when acquire() returns absent, unlock returns success=false with a
\* message that directs to authenticate, the response is 400, release is
\* never called and neither resolution nor actuation is attempted.
C3_AbsentNoRelease ==
    \A t \in Threads :
       (UnlockDone(t) /\ call[t].acq = "absent") =>
          /\ call[t].result.kind = "value"
          /\ ~call[t].result.success
          /\ Contains(S_authenticate, Lower(call[t].result.message))
          /\ call[t].resp.status = 400
          /\ call[t].resp.text = call[t].result.message
          /\ call[t].closes = 0
          /\ call[t].acts = 0
          /\ call[t].intercom = NoDevice
          /\ call[t].devices = NoSnapshot
C3_Witness ==
    \E t \in Threads :
       /\ UnlockDone(t)
       /\ call[t].acq = "absent"
       /\ call[t].loaded
       /\ call[t].sess = "none"
       /\ call[t].tok = PyNone

\* C4: one unlock call makes at most one actuation attempt, whatever its
\* outcome.
C4_AtMostOneActuation == \A t \in Threads : call[t].acts <= 1
C4_Witness ==
    \E t \in Threads :
       /\ UnlockDone(t)
       /\ call[t].acts = 1
       /\ call[t].err = ErrTimeout
       /\ call[t].resp.status = 400

\* C5: when the actuate call raises, unlock returns success=false with a
\* message that carries the error's text, and the response is the JSON
\* failure, not an unhandled error.
C5_ActuateErrorCaught ==
    \A t \in Threads :
       (UnlockDone(t) /\ call[t].acts > 0 /\ ~call[t].opened) =>
          /\ call[t].result.kind = "value"
          /\ ~call[t].result.success
          /\ Contains(call[t].err, call[t].result.message)
          /\ call[t].resp.kind = "json"
          /\ call[t].resp.status = 400
          /\ call[t].resp.text = call[t].result.message
C5_Witness ==
    \E t \in Threads :
       /\ UnlockDone(t)
       /\ call[t].acts = 1
       /\ ~call[t].opened
       /\ call[t].err = ErrDenied
       /\ call[t].result.message = MsgError(ErrDenied)

\* C6: every unlock call that passed the key check returns a structured
\* result {success, message} to the HTTP boundary, also when opening the
\* session or pulling its data fails with an error other than an
\* authentication failure; no such error leaves the view unhandled.
C6_AlwaysStructured ==
    \A t \in Threads :
       (UnlockDone(t) /\ call[t].loaded) =>
          /\ call[t].result.kind = "value"
          /\ call[t].resp.kind = "json"

\* the session shows one device, of family 'other'
SingleOther(devices) ==
    \E d \in Devices, c \in BOOLEAN :
       d.family = FamOther /\ devices = RingDevices(<<d>>, c)

\* C7: with a stored valid token (the client was acquired), a session that
\* shows a single device of family 'other', no INTERCOM_NAME and an actuate
\* call that does not raise, unlock returns success=true with a message that
\* contains the name of that device, which is the one actuated.
C7_SingleOtherUnlocks ==
    \A t \in Threads :
       ( /\ UnlockDone(t)
         /\ call[t].acq = "ok"
         /\ Len(INTERCOM_NAME) = 0
         /\ SingleOther(call[t].devices)
         /\ call[t].err = <<>> ) =>
          /\ call[t].intercom = all_devices(call[t].devices)[1]
          /\ call[t].opened
          /\ call[t].result = Returned(TRUE, call[t].result.message)
          /\ Contains(call[t].intercom.name, call[t].result.message)
          /\ call[t].resp.status = 200
          /\ call[t].resp.success
          /\ call[t].resp.text = call[t].result.message
C7_Witness ==
    \E t \in Threads :
       /\ UnlockDone(t)
       /\ Len(INTERCOM_NAME) = 0
       /\ call[t].devices = RingDevices(<<DevGate>>, FALSE)
       /\ call[t].opened
       /\ call[t].resp.status = 200

\* C8: when the provider rejects the stored token while the session is
\* opened, acquire() returns absent and the call ends as a failure, the
\* token store (RING_TOKEN, the file, _latest_token_b64) is as it was, and
\* no unlock call ever calls the provider's authenticate.
C8_AuthFailureLeavesStore ==
    [][\A t \in Threads :
          /\ ( /\ call[t].route = "unlock"
               /\ call[t].pc \in {"create_session", "update_data"}
               /\ call'[t].acq = "absent" ) =>
                /\ call'[t].pc = "done"
                /\ ~call'[t].result.success
                /\ RING_TOKEN' = RING_TOKEN
                /\ token_file' = token_file
                /\ latest_token_b64' = latest_token_b64
          /\ call'[t].route = "unlock" => call'[t].fetches = 0]_vars
C8_Witness ==
    \E t \in Threads :
       /\ UnlockDone(t)
       /\ call[t].acq = "absent"
       /\ call[t].sess = "open"
       /\ token_file.exists
       /\ ReadFile(token_file) = call[t].tok

\* the token RING_TOKEN encodes and the token the file holds
EnvToken == DecodeEnv(RING_TOKEN)
FileToken == json_loads(token_file.data)
Loaded == get_cached_token(RING_TOKEN, token_file, latest_token_b64)

\* C9: whenever RING_TOKEN decodes to a token and the file holds a valid
\* token that differs from it, load() returns the token of RING_TOKEN, in
\* every state persist() and load() calls lead to.
C9_EnvTokenFirst ==
    ( /\ Len(RING_TOKEN) > 0
      /\ EnvToken.ok
      /\ token_file.exists
      /\ FileToken.ok
      /\ FileToken.val # EnvToken.val ) =>
       Loaded.val = EnvToken.val
C9_Witness ==
    /\ Len(RING_TOKEN) > 0
    /\ EnvToken.ok
    /\ token_file.exists
    /\ FileToken.ok
    /\ FileToken.val # EnvToken.val
    /\ latest_token_b64 # PyNone
    /\ \E t \in Threads :
          /\ call[t].route = "unlock"
          /\ call[t].pc = "create_session"
          /\ call[t].tok = EnvToken.val

\* C10: load() falls through to the file when RING_TOKEN is set but does
\* not decode; it returns absent when the file is missing or is no JSON; it
\* never raises; and _latest_token_b64 has no part in what it returns.
C10_LoadFallsThrough ==
    /\ ~Loaded.exc
    /\ (Len(RING_TOKEN) > 0 /\ ~EnvToken.ok /\ token_file.exists /\ FileToken.ok) =>
          Loaded.val = FileToken.val
    /\ ( /\ Len(RING_TOKEN) = 0 \/ ~EnvToken.ok
         /\ ~token_file.exists \/ ~FileToken.ok ) =>
          Loaded.val = PyNone
    /\ \A latest \in {PyNone, latest_token_b64, EncodeLatest(TokA), EncodeLatest(TokB)} :
          get_cached_token(RING_TOKEN, token_file, latest) = Loaded
C10_Witness ==
    /\ Len(RING_TOKEN) > 0
    /\ ~EnvToken.ok
    /\ token_file.exists
    /\ ~FileToken.ok
    /\ latest_token_b64 # PyNone
    /\ \E t \in Threads :
          /\ UnlockDone(t)
          /\ call[t].loaded
          /\ call[t].acq = "absent"
          /\ call[t].sess = "none"


\* C11: load() followed at once by persist() of the value it returned leaves
\* the store such that the next load() returns an equal value, whether the
\* token came from RING_TOKEN or from the file.
C11_LoadPersistLoad ==
    [][\A t \in Threads :
          (call[t].route = "load" /\ call[t].pc = "reload" /\ call'[t].pc = "done") =>
             call'[t].tok = call[t].tok]_vars

\* a request is inside token_updated
InTokenUpdated(frame) == frame.pc \in {"tu_open", "tu_write"}

\* C12: a persist whose file write fails does not raise: it returns to its
\* caller, and _latest_token_b64 is the encoding of the token it was given.
C12_WriteFailureSwallowed ==
    [][\A t \in Threads :
          (InTokenUpdated(call[t]) /\ ~InTokenUpdated(call'[t]) /\ call'[t].wfail) =>
             /\ call'[t].pc = call[t].pret
             /\ latest_token_b64' = EncodeLatest(call[t].ptok)]_vars
C12_Witness ==
    \E t \in Threads :
       /\ call[t].pc = "fetched"
       /\ call[t].wfail
       /\ ReadFile(token_file) # call[t].tok
       /\ latest_token_b64 = EncodeLatest(call[t].tok)

\* the token of _latest_token_b64
LatestToken == DecodeEnv(latest_token_b64.v).val

\* thread t takes the step in which an /unlock request with the right key
\* calls get_cached_token, with no RING_TOKEN, after a token_updated of this
\* process whose token the file does not hold
LoadsAfterFailedPersist(t) ==
    /\ call[t].pc = "idle"
    /\ call'[t].route = "unlock"
    /\ call'[t].loaded
    /\ Len(RING_TOKEN) = 0
    /\ latest_token_b64 # PyNone
    /\ ReadFile(token_file) # LatestToken

C14_AllOrNothing ==
    \A t \in Threads :
       (call[t].route = "load" /\ call[t].loaded /\ call[t].pc \in {"held", "done"}) =>
          call[t].tok \in IssuedTokens

\* a request of the setup flow
LoginRoute(t) == call[t].route \in {"authenticate", "verify_2fa"}

\* C15: with credentials for which the provider requires a second factor,
\* only a submission with the correct code ends on the success page, and a
\* submission with an incorrect code ends on the failure page.
C15_SecondFactorNeeded ==
    \A t \in Threads :
       (LoginRoute(t) /\ call[t].creds = "ok_2fa") =>
          /\ call[t].resp.kind = "complete" =>
                (call[t].route = "verify_2fa" /\ call[t].code = "good")
          /\ (call[t].pc = "done" /\ call[t].code = "bad") =>
                (call[t].resp.kind = "failed" /\ call[t].persists = 0)
          /\ call[t].route = "authenticate" => call[t].persists = 0
C15_Witness ==
    \E t \in Threads :
       /\ call[t].route = "verify_2fa"
       /\ call[t].pc = "done"
       /\ call[t].creds = "ok_2fa"
       /\ call[t].code = "bad"
       /\ call[t].resp.kind = "failed"

\* C16: in the second-factor stage token_updated has run only once the
\* verification round trip succeeded (the session was opened, used and
\* closed), and a login request that ends on the failure page has not
\* persisted a token: the file and _latest_token_b64 are as it found them.
C16_PersistAfterVerification ==
    \A t \in Threads :
       LoginRoute(t) =>
          /\ (call[t].route = "verify_2fa" /\ call[t].persists > 0
                 /\ ~InTokenUpdated(call[t])) => call[t].sess = "closed"
          /\ call[t].resp.kind = "failed" =>
                (call[t].persists = 0 /\ latest_token_b64 # EncodeLatest(call[t].tok))

\* C17: Failed is terminal: once a second-factor submission has failed, the
\* login completes only through a new submission of username and password
\* to /setup/authenticate, never through a further second-factor submission
\* alone.
C17_FailedIsTerminal ==
    [][(attempt.stage = "Failed" /\ attempt.leg = "verify_2fa"
          /\ attempt'.stage = "Complete") => attempt'.leg = "authenticate"]_vars

\* the candidates thread t resolved on, once get_ring_client returned them
Candidates(t) == all_devices(call[t].devices)
Resolved(t) == call[t].route = "unlock" /\ call[t].acq = "ok"
\* the positions of the candidates named as configured, of those with
\* "intercom" in type, family or name, of those of family 'other'
NamedAt(l) == {i \in 1..Len(l) : Lower(l[i].name) = Lower(INTERCOM_NAME)}
IntercomAt(l) == {i \in 1..Len(l) : IsIntercom(l[i])}
OtherAt(l) == {i \in 1..Len(l) : Lower(l[i].family) = S_other}
First(l, at) == l[CHOOSE i \in at : \A j \in at : i <= j]

\* C18: with a configured name that some candidate bears, case aside, the
\* resolver returns the first such candidate, whatever the other candidates
\* are and wherever they stand.
C18_NameOverrides ==
    \A t \in Threads :
       (Resolved(t) /\ Len(INTERCOM_NAME) > 0 /\ NamedAt(Candidates(t)) # {}) =>
          call[t].intercom = First(Candidates(t), NamedAt(Candidates(t)))
C18_Witness ==
    \E t \in Threads :
       /\ Resolved(t)
       /\ Len(INTERCOM_NAME) > 0
       /\ Len(Candidates(t)) = 2
       /\ NamedAt(Candidates(t)) = {2}
       /\ 1 \in IntercomAt(Candidates(t)) \cup OtherAt(Candidates(t))
       /\ call[t].intercom = Candidates(t)[2]
       /\ call[t].opened

\* C19: with no configured name the resolver returns the first candidate
\* with "intercom" in its type, family or name if there is one, however many
\* candidates of family 'other' stand before it; else the first candidate of
\* family 'other'; else none.
C19_IntercomThenOther ==
    \A t \in Threads :
       (Resolved(t) /\ Len(INTERCOM_NAME) = 0) =>
          call[t].intercom =
             IF IntercomAt(Candidates(t)) # {}
             THEN First(Candidates(t), IntercomAt(Candidates(t)))
             ELSE IF OtherAt(Candidates(t)) # {}
             THEN First(Candidates(t), OtherAt(Candidates(t)))
             ELSE NoDevice
C19_Witness ==
    \E t \in Threads :
       /\ Resolved(t)
       /\ Len(INTERCOM_NAME) = 0
       /\ Len(Candidates(t)) = 2
       /\ OtherAt(Candidates(t)) = {1}
       /\ IntercomAt(Candidates(t)) = {2}
       /\ call[t].intercom = Candidates(t)[2]
       /\ call[t].opened

\* C20: concurrent /unlock calls are independent.  A session is closed only
\* by the call that opened it, in its finally block; a step of one call
\* leaves the frames of all other calls and the configuration as they were
\* (only the token file and _latest_token_b64 are shared); and a call that
\* ended has closed one session if it acquired one and none if it did not.
C20_IndependentCalls ==
    [][\A t \in Threads :
          /\ (call[t].sess = "open" /\ call'[t].sess = "closed") =>
                (call[t].pc = "close" /\ call'[t].closes = call[t].closes + 1)
          /\ call'[t] # call[t] =>
                /\ \A u \in Threads \ {t} : call'[u] = call[u]
                /\ config' = config
          /\ (call'[t].route = "unlock" /\ call'[t].pc = "done") =>
                call'[t].closes = IF call'[t].acq = "ok" THEN 1 ELSE 0]_vars
C20_Witness ==
    \E t \in Threads, u \in Threads :
       /\ t # u
       /\ UnlockDone(t)
       /\ call[t].acq = "ok"
       /\ call[t].closes = 1
       /\ call[t].persists = 1
       /\ call[u].route = "unlock"
       /\ call[u].acq = "ok"
       /\ call[u].sess = "open"
       /\ call[u].closes = 0

\* C21: the base64-of-JSON text persist(t) leaves in _latest_token_b64,
\* given to load() as RING_TOKEN, makes load() return a token equal to t.
C21_EncodingRoundTrip ==
    [][\A t \in Threads :
          (call[t].route = "persist" /\ call[t].pc = "done" /\ call'[t].route = "load") =>
             call'[t].tok = call[t].tok]_vars
C21_Witness ==
    \E t \in Threads :
       /\ call[t].route = "load"
       /\ call[t].pc = "done"
       /\ call[t].wfail
       /\ ~token_file.exists
       /\ call[t].tok = PyDict(<< <<(<<34>>), PyStr(<<34>>)>>, <<(<<34, 114>>), PyNone>> >>)

\* the devices a listing holds
Range(l) == {l[i] : i \in 1..Len(l)}
\* the groupings a RingDevices object exposes besides devices_combined
Groupings(devices) ==
    {devices.other, devices.doorbots, devices.stickup_cams, devices.chimes,
     devices.video_doorbells}

\* C22: the candidates are exactly the listing devices_combined when the
\* session exposes it (the groupings add nothing to it); when it does not,
\* they are the devices of all the groupings other, doorbots, stickup_cams,
\* chimes and video_doorbells, and no others.
C22_CandidateSet ==
    \A t \in Threads :
       Resolved(t) =>
          IF call[t].devices.devices_combined.has
          THEN Candidates(t) = call[t].devices.devices_combined.list
          ELSE Range(Candidates(t)) =
                  UNION {Range(Ext(g)) : g \in Groupings(call[t].devices)}
C22_Witness ==
    \E t \in Threads :
       /\ Resolved(t)
       /\ call[t].devices.devices_combined.has
       /\ Len(call[t].devices.other.list) = 1
       /\ Len(call[t].devices.doorbots.list) = 1
       /\ Len(Candidates(t)) = 2
       /\ call[t].opened

\* C23: when the resolver returns none, the failure message lists the name
\* and family of every candidate the resolver considered, whether the
\* session exposes devices_combined or the groupings only; with no
\* candidate the listing is empty.
C23_ListsEveryCandidate ==
    \A t \in Threads :
       (Resolved(t) /\ call[t].intercom = NoDevice) =>
          /\ call[t].result = Returned(FALSE, MsgNoIntercom(call[t].devices))
          /\ Range(device_list(ListedDevices(call[t].devices)))
                = Range(device_list(Candidates(t)))
          /\ Len(Candidates(t)) = 0 => Len(ListedDevices(call[t].devices)) = 0

\* a request of the setup flow has rendered the success page
LoginComplete(t) ==
    LoginRoute(t) /\ call[t].pc = "done" /\ call[t].resp.kind = "complete"
\* RING_TOKEN is set and decodes
EnvDecodes == Len(RING_TOKEN) > 0 /\ EnvToken.ok

HeuristicPick(l) ==
    IF IntercomAt(l) # {} THEN First(l, IntercomAt(l))
    ELSE IF OtherAt(l) # {} THEN First(l, OtherAt(l))
    ELSE NoDevice
\* async_open_door was called on the device the call resolved
Actuated(t) == call[t].route = "unlock" /\ call[t].acts > 0

\* C25 as stated: with a configured name, no device of another name is
\* actuated; when no candidate bears the name, none is.
C25_OnlyNamedDevice ==
    \A t \in Threads :
       (Actuated(t) /\ Len(INTERCOM_NAME) > 0) =>
          Lower(call[t].intercom.name) = Lower(INTERCOM_NAME)

\* C25 amended: with a configured name that some candidate bears, no device
\* of another name is actuated; when no candidate bears it, the resolver
\* falls back on the heuristics, and the device they pick, whatever its name,
\* is the one actuated; no device is actuated only when they pick none.
C25_NamedElseHeuristics ==
    \A t \in Threads :
       (Resolved(t) /\ Len(INTERCOM_NAME) > 0) =>
          /\ call[t].intercom =
                IF NamedAt(Candidates(t)) # {}
                THEN First(Candidates(t), NamedAt(Candidates(t)))
                ELSE HeuristicPick(Candidates(t))
          /\ call[t].intercom = NoDevice => call[t].acts = 0
          /\ (call[t].pc = "done" /\ call[t].intercom # NoDevice) => call[t].acts = 1
C25_Witness ==
    \E t \in Threads :
       /\ Resolved(t)
       /\ Len(INTERCOM_NAME) > 0
       /\ NamedAt(Candidates(t)) = {}
       /\ call[t].opened
       /\ Lower(call[t].intercom.name) # Lower(INTERCOM_NAME)
       /\ call[t].result = Returned(TRUE, MsgUnlocked(call[t].intercom))

\* C26: no provider session is left open when an operation returns: the
\* session an /unlock call opened in get_ring_client, and the one the
\* second-factor verification opened, is closed at the end of the request,
\* also when opening it or pulling its data failed.
C26_NoSessionLeftOpen ==
    \A t \in Threads :
       (call[t].pc = "done" /\ call[t].route \in {"unlock", "verify_2fa"}) =>
          call[t].sess # "open"

\* C27: the result of an /unlock call says success exactly when
\* async_open_door was called and returned without error: an opened door
\* gives success (answered with status 200), and a failure result, or any
\* other answer, means that no call of async_open_door completed.
C27_SuccessIffActuated ==
    \A t \in Threads :
       call[t].route = "unlock" =>
          /\ call[t].opened <=> call[t].result.success
          /\ call[t].opened => (call[t].acts = 1 /\ Len(call[t].err) = 0)
          /\ call[t].pc = "done" =>
                /\ call[t].resp.success <=> call[t].opened
                /\ call[t].resp.status = 200 <=> call[t].opened
C27_Witness ==
    \E t \in Threads :
       /\ UnlockDone(t)
       /\ call[t].acts = 1
       /\ ~call[t].opened
       /\ ~call[t].result.success
       /\ call[t].resp.status = 400
       /\ call[t].result.message = MsgError(call[t].err)

====
